---------------------------- MODULE Spec2Model ----------------------------
(***************************************************************************)
(* Model of the instruction-encoding and signing HTTP service in           *)
(* src/src/main.rs.  The server is stateless: every handler maps one       *)
(* request to one response.  The state is the request being served and     *)
(* the response produced for it.                                           *)
(*                                                                         *)
(* Text (Rust String) is a sequence of one-character strings, a byte       *)
(* string is a sequence of numbers in 0..255.  Error messages and program  *)
(* ids are never decoded by the program and are kept as plain strings.     *)
(***************************************************************************)
EXTENDS Integers, Sequences, FiniteSets, TLC

(***************************************************************************)
(* Bounds of the model.                                                    *)
(***************************************************************************)
NumKeys == 2          \* key pairs Keypair::new() may draw
MaxMsgLen == 1        \* longest message text
MaxAmount == 2        \* amounts 0..MaxAmount are tried besides SampleAmounts

(***************************************************************************)
(* Sizes fixed by the libraries the handlers call.                         *)
(***************************************************************************)
PUBKEY_BYTES == 32
SIGNATURE_BYTES == 64
KEYPAIR_LENGTH == 64
SECRET_KEY_LENGTH == 32
MAX_BASE58_LEN == 44
U64_BYTES == 8

Reverse(s) == [i \in 1..Len(s) |-> s[Len(s) + 1 - i]]

Repeat(x, n) == [i \in 1..n |-> x]

\* index of c in the alphabet, counted from 0; -1 when c is not in it
IndexIn(alphabet, c) ==
  IF \E i \in 1..Len(alphabet) : alphabet[i] = c
  THEN (CHOOSE i \in 1..Len(alphabet) : alphabet[i] = c) - 1
  ELSE -1

(***************************************************************************)
(* base58 (crate bs58, Bitcoin alphabet).                                  *)
(***************************************************************************)
B58 ==
  << "1","2","3","4","5","6","7","8","9",
     "A","B","C","D","E","F","G","H","J","K","L","M","N","P","Q","R","S","T",
     "U","V","W","X","Y","Z",
     "a","b","c","d","e","f","g","h","i","j","k","m","n","o","p","q","r","s",
     "t","u","v","w","x","y","z" >>

\* The decoder keeps a number, least significant limb first, and for every
\* character multiplies it by 58 and adds the character's index.  The limbs
\* here are 16 bits wide (Limb) and are cut into bytes at the end.
Limb == 256 * 256

RECURSIVE MulAdd(_, _, _, _)
MulAdd(le, mul, carry, base) ==
  IF le = << >>
  THEN IF carry = 0 THEN << >>
       ELSE << carry % base >> \o MulAdd(<< >>, mul, carry \div base, base)
  ELSE LET v == Head(le) * mul + carry
       IN  << v % base >> \o MulAdd(Tail(le), mul, v \div base, base)

\* four characters at a time while four are left, each step evaluated before
\* the next one starts (Len(next) >= 0 always holds)
RECURSIVE Decode58Digits(_, _, _)
Decode58Digits(text, i, le) ==
  LET D(k) == IndexIn(B58, text[k])
      M(n, d) == MulAdd(n, Len(B58), d, Limb)
      next == IF i + 3 <= Len(text)
              THEN M(M(M(M(le, D(i)), D(i + 1)), D(i + 2)), D(i + 3))
              ELSE M(le, D(i))
  IN  IF i > Len(text) THEN le
      ELSE IF Len(next) >= 0
           THEN Decode58Digits(text, IF i + 3 <= Len(text) THEN i + 4 ELSE i + 1, next)
           ELSE next

RECURSIVE LeadingCount(_, _)
LeadingCount(s, x) ==
  IF s # << >> /\ Head(s) = x THEN 1 + LeadingCount(Tail(s), x) ELSE 0

\* the digits of a little-endian number in base `base`, each limb cut into
\* `per` digits, without the zero digits above the most significant one
Split(le, base, per) ==
  LET all == [i \in 1..(Len(le) * per) |->
                LET limb == le[((i - 1) \div per) + 1]
                    k == (i - 1) % per
                IN  (limb \div (base ^ k)) % base]
      top == IF \E i \in 1..Len(all) : all[i] # 0
             THEN CHOOSE i \in 1..Len(all) :
                    all[i] # 0 /\ \A j \in (i + 1)..Len(all) : all[j] = 0
             ELSE 0
  IN  SubSeq(all, 1, top)

\* bs58::decode(text).into_vec(): [ok, bytes]
Bs58Decode(text) ==
  IF \E i \in 1..Len(text) : IndexIn(B58, text[i]) < 0
  THEN [ok |-> FALSE, bytes |-> << >>]
  ELSE [ok |-> TRUE,
        bytes |-> Repeat(0, LeadingCount(text, B58[1]))
                  \o Reverse(Split(Decode58Digits(text, 1, << >>), 256, 2))]

\* The encoder keeps the number in base 58, least significant digit first, and
\* for every byte multiplies it by 256 and adds the byte.  The limbs here hold
\* two base-58 digits (Limb58) and are cut into digits at the end.
Limb58 == Len(B58) * Len(B58)

RECURSIVE Encode58Digits(_, _, _)
Encode58Digits(bytes, i, le) ==
  LET M(n, d) == MulAdd(n, 256, d, Limb58)
      next == IF i + 3 <= Len(bytes)
              THEN M(M(M(M(le, bytes[i]), bytes[i + 1]), bytes[i + 2]), bytes[i + 3])
              ELSE M(le, bytes[i])
  IN  IF i > Len(bytes) THEN le
      ELSE IF Len(next) >= 0
           THEN Encode58Digits(bytes, IF i + 3 <= Len(bytes) THEN i + 4 ELSE i + 1, next)
           ELSE next

\* bs58::encode(bytes).into_string()
Bs58Encode(bytes) ==
  LET digits == Reverse(Split(Encode58Digits(bytes, 1, << >>), Len(B58), 2))
  IN  Repeat(B58[1], LeadingCount(bytes, 0))
      \o [i \in 1..Len(digits) |-> B58[digits[i] + 1]]

(***************************************************************************)
(* base64 (crate base64, general_purpose::STANDARD: padded, canonical).     *)
(***************************************************************************)
B64 ==
  << "A","B","C","D","E","F","G","H","I","J","K","L","M","N","O","P","Q","R",
     "S","T","U","V","W","X","Y","Z",
     "a","b","c","d","e","f","g","h","i","j","k","l","m","n","o","p","q","r",
     "s","t","u","v","w","x","y","z",
     "0","1","2","3","4","5","6","7","8","9","+","/" >>

PAD == "="

\* byte i (from 1) of bytes, 0 past the end
ByteOr0(bytes, i) == IF i <= Len(bytes) THEN bytes[i] ELSE 0

\* STANDARD.encode(bytes)
Base64Encode(bytes) ==
  [j \in 1..(4 * ((Len(bytes) + 2) \div 3)) |->
     LET g == (j - 1) \div 4
         k == (j - 1) % 4
         v == ByteOr0(bytes, 3 * g + 1) * 65536
              + ByteOr0(bytes, 3 * g + 2) * 256
              + ByteOr0(bytes, 3 * g + 3)
     IN  IF k >= 2 /\ 3 * g + k > Len(bytes)
         THEN PAD
         ELSE B64[((v \div (64 ^ (3 - k))) % 64) + 1]]

\* STANDARD.decode(text): [ok, bytes]
Base64Decode(text) ==
  LET n == Len(text)
      p == IF n >= 1 /\ text[n] = PAD
           THEN IF n >= 2 /\ text[n - 1] = PAD THEN 2 ELSE 1
           ELSE 0
      m == n - p
      S(j) == IF j <= m THEN IndexIn(B64, text[j]) ELSE 0
      last == S(m)
      wellFormed ==
        /\ n % 4 = 0
        /\ \A j \in 1..m : IndexIn(B64, text[j]) >= 0
        /\ p = 1 => last % 4 = 0
        /\ p = 2 => last % 16 = 0
  IN  IF ~wellFormed
      THEN [ok |-> FALSE, bytes |-> << >>]
      ELSE [ok |-> TRUE,
            bytes |-> [i \in 1..((m * 6) \div 8) |->
                         LET g == (i - 1) \div 3
                             k == (i - 1) % 3
                             v == S(4 * g + 1) * 262144 + S(4 * g + 2) * 4096
                                  + S(4 * g + 3) * 64 + S(4 * g + 4)
                         IN  (v \div (256 ^ (2 - k))) % 256]]

(***************************************************************************)
(* Keys and signatures.  ed25519 itself is a library; it is modelled by     *)
(* its contract: a key pair is 32 secret bytes followed by the 32 public    *)
(* bytes derived from them, signing is a deterministic function of the key  *)
(* pair and the message bytes, and a signature verifies under a public key  *)
(* exactly when it is the signature the owner of that key makes over the    *)
(* message.                                                                 *)
(***************************************************************************)
KeyIds == 1..NumKeys

\* the secret bytes Keypair::new() draws for key k
Seed(k) == [i \in 1..SECRET_KEY_LENGTH |-> (k * 73 + i * 5) % 256]

\* the public key derived from a secret key
PublicOf(secret) == [i \in 1..PUBKEY_BYTES |-> (secret[i] * 7 + 11 + i) % 256]

\* Keypair::new()
NewKeypair(k) == [secret |-> Seed(k), public |-> PublicOf(Seed(k))]

\* Keypair::to_bytes()
KeypairToBytes(kp) == kp.secret \o kp.public

\* Keypair::from_bytes(bytes): [ok, kp]
KeypairFromBytes(bytes) ==
  LET kp == [secret |-> SubSeq(bytes, 1, SECRET_KEY_LENGTH),
             public |-> SubSeq(bytes, SECRET_KEY_LENGTH + 1, KEYPAIR_LENGTH)]
  IN  IF Len(bytes) = KEYPAIR_LENGTH /\ kp.public = PublicOf(kp.secret)
      THEN [ok |-> TRUE, kp |-> kp]
      ELSE [ok |-> FALSE, kp |-> [secret |-> << >>, public |-> << >>]]

\* Keypair::try_sign_message(message): the 64 signature bytes
SignMessage(kp, message) ==
  [i \in 1..SIGNATURE_BYTES |->
     IF i <= SECRET_KEY_LENGTH
     THEN (kp.secret[i] * 3 + ByteOr0(message, i) + i) % 256
     ELSE LET j == i - SECRET_KEY_LENGTH
          IN  (kp.public[j] + kp.secret[j] * 5 + Len(message)) % 256]

\* Signature::verify(pubkey_bytes, message_bytes)
SignatureVerify(signature, public, message) ==
  \E k \in KeyIds :
    /\ NewKeypair(k).public = public
    /\ signature = SignMessage(NewKeypair(k), message)

\* Pubkey::to_string()
PubkeyToString(bytes) == Bs58Encode(bytes)

\* str::parse::<Pubkey>(): [ok, bytes]
ParsePubkey(text) ==
  LET d == Bs58Decode(text)
  IN  IF Len(text) <= MAX_BASE58_LEN /\ d.ok /\ Len(d.bytes) = PUBKEY_BYTES
      THEN [ok |-> TRUE, bytes |-> d.bytes]
      ELSE [ok |-> FALSE, bytes |-> << >>]

\* Signature::try_from(bytes): [ok, bytes]
SignatureTryFrom(bytes) ==
  IF Len(bytes) = SIGNATURE_BYTES
  THEN [ok |-> TRUE, bytes |-> bytes]
  ELSE [ok |-> FALSE, bytes |-> << >>]

\* String::as_bytes() for the characters messages are made of
Utf8 == [g |-> 103, m |-> 109]

AsBytes(text) == [i \in 1..Len(text) |-> Utf8[text[i]]]

\* u64::to_le_bytes()
RECURSIVE LeBytes(_, _)
LeBytes(value, width) ==
  IF width = 0 THEN << >>
  ELSE << value % 256 >> \o LeBytes(value \div 256, width - 1)

ToLeBytes(value) == LeBytes(value, U64_BYTES)

(***************************************************************************)
(* Responses.                                                              *)
(***************************************************************************)
TOKEN_PROGRAM_ID == "TokenkegQfeZyiNwAJbNbGKPFXCWuBvf9Ss623VQ5DA"
SYSTEM_PROGRAM_ID == "11111111111111111111111111111112"

ApiResponse(data) == [status |-> 200, success |-> TRUE, data |-> data]

error_response(message) == [status |-> 400, success |-> FALSE, error |-> message]

AccountMeta(pubkey, is_signer, is_writable) ==
  [pubkey |-> pubkey, is_signer |-> is_signer, is_writable |-> is_writable]

TokenAccountMeta(pubkey, is_signer) == [pubkey |-> pubkey, isSigner |-> is_signer]

\* SolTransferData.accounts holds bare address strings: an entry has the
\* address and no flag
SolAccount(pubkey) == [pubkey |-> pubkey]

InstructionData(program_id, accounts, bytes) ==
  [program_id |-> program_id, accounts |-> accounts,
   instruction_data |-> Base64Encode(bytes)]

(***************************************************************************)
(* The handlers: each maps the request payload to the response.            *)
(***************************************************************************)
root_handler == ApiResponse([message |-> "gm gm"])

\* k: the key pair the random source yields
keypair_handler(k) ==
  LET keypair == NewKeypair(k)
  IN  ApiResponse([pubkey |-> PubkeyToString(keypair.public),
                   secret |-> Bs58Encode(KeypairToBytes(keypair))])

\* Mutation of create_token_handler: the two accounts in the other order.
create_token_handler_AuthorityFirst(payload) ==
  ApiResponse(InstructionData(
    TOKEN_PROGRAM_ID,
    << AccountMeta(payload.mintAuthority, TRUE, FALSE),
       AccountMeta(payload.mint, FALSE, TRUE) >>,
    << 0, payload.decimals >>))

create_token_handler(payload) ==
  ApiResponse(InstructionData(
    TOKEN_PROGRAM_ID,
    << AccountMeta(payload.mint, FALSE, TRUE),
       AccountMeta(payload.mintAuthority, TRUE, FALSE) >>,
    << 0, payload.decimals >>))

\* Mutation of mint_token_handler: the amount most significant byte first
\* (to_be_bytes).
mint_token_handler_BigEndian(payload) ==
  ApiResponse(InstructionData(
    TOKEN_PROGRAM_ID,
    << AccountMeta(payload.mint, FALSE, TRUE),
       AccountMeta(payload.destination, FALSE, TRUE),
       AccountMeta(payload.authority, TRUE, FALSE) >>,
    << 7 >> \o Reverse(ToLeBytes(payload.amount))))

mint_token_handler(payload) ==
  ApiResponse(InstructionData(
    TOKEN_PROGRAM_ID,
    << AccountMeta(payload.mint, FALSE, TRUE),
       AccountMeta(payload.destination, FALSE, TRUE),
       AccountMeta(payload.authority, TRUE, FALSE) >>,
    << 7 >> \o ToLeBytes(payload.amount)))

\* Mutation of sign_message_handler: the signature as base58 text
\* (Signature::to_string) instead of base64.
sign_message_handler_Base58Signature(payload) ==
  IF payload.message = << >> \/ payload.secret = << >>
  THEN error_response("Missing required fields")
  ELSE
  LET secret_bytes == Bs58Decode(payload.secret)
      keypair == KeypairFromBytes(secret_bytes.bytes)
      signature == SignMessage(keypair.kp, AsBytes(payload.message))
  IN  IF ~secret_bytes.ok THEN error_response("Invalid secret key format")
      ELSE IF ~keypair.ok THEN error_response("Invalid secret key")
      ELSE ApiResponse([signature |-> Bs58Encode(signature),
                        public_key |-> PubkeyToString(keypair.kp.public),
                        message |-> payload.message])

\* Mutation of sign_message_handler: a decoded secret of the wrong length is
\* reported as a format error.
sign_message_handler_LengthIsFormat(payload) ==
  IF payload.message = << >> \/ payload.secret = << >>
  THEN error_response("Missing required fields")
  ELSE
  LET secret_bytes == Bs58Decode(payload.secret)
      keypair == KeypairFromBytes(secret_bytes.bytes)
      signature == SignMessage(keypair.kp, AsBytes(payload.message))
  IN  IF ~secret_bytes.ok \/ Len(secret_bytes.bytes) # KEYPAIR_LENGTH
      THEN error_response("Invalid secret key format")
      ELSE IF ~keypair.ok THEN error_response("Invalid secret key")
      ELSE ApiResponse([signature |-> Base64Encode(signature),
                        public_key |-> PubkeyToString(keypair.kp.public),
                        message |-> payload.message])

sign_message_handler(payload) ==
  IF payload.message = << >> \/ payload.secret = << >>
  THEN error_response("Missing required fields")
  ELSE
  LET secret_bytes == Bs58Decode(payload.secret)
      keypair == KeypairFromBytes(secret_bytes.bytes)
      signature == SignMessage(keypair.kp, AsBytes(payload.message))
  IN  IF ~secret_bytes.ok THEN error_response("Invalid secret key format")
      ELSE IF ~keypair.ok THEN error_response("Invalid secret key")
      ELSE ApiResponse([signature |-> Base64Encode(signature),
                        public_key |-> PubkeyToString(keypair.kp.public),
                        message |-> payload.message])

\* Mutation of verify_message_handler: a signature that does not verify is
\* answered with an error.
verify_message_handler_ErrorOnMismatch(payload) ==
  IF payload.message = << >> \/ payload.signature = << >> \/ payload.pubkey = << >>
  THEN error_response("Missing required fields")
  ELSE
  LET pubkey == ParsePubkey(payload.pubkey)
      signature_bytes == Base64Decode(payload.signature)
      signature == SignatureTryFrom(signature_bytes.bytes)
      is_valid == SignatureVerify(signature.bytes, pubkey.bytes,
                                  AsBytes(payload.message))
  IN  IF ~pubkey.ok THEN error_response("Invalid public key")
      ELSE IF ~signature_bytes.ok THEN error_response("Invalid signature format")
      ELSE IF ~signature.ok \/ ~is_valid THEN error_response("Invalid signature")
      ELSE ApiResponse([valid |-> is_valid,
                        message |-> payload.message,
                        pubkey |-> payload.pubkey])

verify_message_handler(payload) ==
  IF payload.message = << >> \/ payload.signature = << >> \/ payload.pubkey = << >>
  THEN error_response("Missing required fields")
  ELSE
  LET pubkey == ParsePubkey(payload.pubkey)
      signature_bytes == Base64Decode(payload.signature)
      signature == SignatureTryFrom(signature_bytes.bytes)
      is_valid == SignatureVerify(signature.bytes, pubkey.bytes,
                                  AsBytes(payload.message))
  IN  IF ~pubkey.ok THEN error_response("Invalid public key")
      ELSE IF ~signature_bytes.ok THEN error_response("Invalid signature format")
      ELSE IF ~signature.ok THEN error_response("Invalid signature")
      ELSE ApiResponse([valid |-> is_valid,
                        message |-> payload.message,
                        pubkey |-> payload.pubkey])

\* Mutation of send_sol_handler: sender and recipient are not compared.
send_sol_handler_NoSameAddressTest(payload) ==
  IF payload.from = << >> \/ payload.to = << >>
  THEN error_response("Missing required fields")
  ELSE IF payload.lamports = 0
  THEN error_response("Amount must be greater than 0")
  ELSE
  LET from_pubkey == ParsePubkey(payload.from)
      to_pubkey == ParsePubkey(payload.to)
  IN  IF ~from_pubkey.ok THEN error_response("Invalid sender address")
      ELSE IF ~to_pubkey.ok THEN error_response("Invalid recipient address")
      ELSE ApiResponse(InstructionData(
             SYSTEM_PROGRAM_ID,
             << SolAccount(payload.from), SolAccount(payload.to) >>,
             << 2, 0, 0, 0 >> \o ToLeBytes(payload.lamports)))

send_sol_handler(payload) ==
  IF payload.from = << >> \/ payload.to = << >>
  THEN error_response("Missing required fields")
  ELSE IF payload.lamports = 0
  THEN error_response("Amount must be greater than 0")
  ELSE
  LET from_pubkey == ParsePubkey(payload.from)
      to_pubkey == ParsePubkey(payload.to)
  IN  IF ~from_pubkey.ok THEN error_response("Invalid sender address")
      ELSE IF ~to_pubkey.ok THEN error_response("Invalid recipient address")
      ELSE IF from_pubkey.bytes = to_pubkey.bytes
      THEN error_response("Cannot send SOL to the same address")
      ELSE ApiResponse(InstructionData(
             SYSTEM_PROGRAM_ID,
             << SolAccount(payload.from), SolAccount(payload.to) >>,
             << 2, 0, 0, 0 >> \o ToLeBytes(payload.lamports)))

\* Mutation of send_token_handler: destination and mint in the other order.
send_token_handler_MintSecond(payload) ==
  IF payload.destination = << >> \/ payload.mint = << >> \/ payload.owner = << >>
  THEN error_response("Missing required fields")
  ELSE IF payload.amount = 0
  THEN error_response("Amount must be greater than 0")
  ELSE ApiResponse(InstructionData(
         TOKEN_PROGRAM_ID,
         << TokenAccountMeta(payload.owner, TRUE),
            TokenAccountMeta(payload.mint, FALSE),
            TokenAccountMeta(payload.destination, FALSE) >>,
         << 3 >> \o ToLeBytes(payload.amount)))

send_token_handler(payload) ==
  IF payload.destination = << >> \/ payload.mint = << >> \/ payload.owner = << >>
  THEN error_response("Missing required fields")
  ELSE IF payload.amount = 0
  THEN error_response("Amount must be greater than 0")
  ELSE ApiResponse(InstructionData(
         TOKEN_PROGRAM_ID,
         << TokenAccountMeta(payload.owner, TRUE),
            TokenAccountMeta(payload.destination, FALSE),
            TokenAccountMeta(payload.mint, FALSE) >>,
         << 3 >> \o ToLeBytes(payload.amount)))

(***************************************************************************)
(* The requests tried.                                                     *)
(***************************************************************************)
Ones(n) == Repeat(B58[1], n)

PubkeyText(k) == PubkeyToString(NewKeypair(k).public)

SecretText(k) == Bs58Encode(KeypairToBytes(NewKeypair(k)))

\* the empty string, addresses of 32 bytes, and strings that are no address:
\* 31 bytes, a character outside the alphabet, more than 44 characters
AddressTexts ==
  { << >>, Ones(PUBKEY_BYTES), Ones(PUBKEY_BYTES - 1) \o << "2" >>,
    Ones(PUBKEY_BYTES - 1), << "0" >> \o Ones(PUBKEY_BYTES - 1),
    Ones(MAX_BASE58_LEN + 1) }
  \cup { PubkeyText(k) : k \in KeyIds }

SampleAmounts == { 255, 256, 5000, 65535, 65536, 1000000, 16777216, 2147483647 }

Amounts == (0..MaxAmount) \cup SampleAmounts

Decimals == 0..255

RECURSIVE TextsUpTo(_)
TextsUpTo(n) ==
  IF n = 0 THEN { << >> }
  ELSE LET shorter == TextsUpTo(n - 1)
       IN  shorter \cup { t \o << c >> : t \in shorter, c \in DOMAIN Utf8 }

Messages == TextsUpTo(MaxMsgLen)

\* the empty string, the secrets of the key pairs, and strings that are no
\* secret: a character outside the alphabet, 63, 32 and 65 bytes, and 64 bytes
\* whose public half belongs to another secret
SecretTexts ==
  { << >>, << "0", "O" >>, Ones(KEYPAIR_LENGTH - 1), Ones(KEYPAIR_LENGTH + 1),
    PubkeyText(1),
    Bs58Encode(NewKeypair(1).secret \o NewKeypair(2).public) }
  \cup { SecretText(k) : k \in KeyIds }

\* bytes with bit b of byte i flipped
FlipBit(bytes, i, b) ==
  [bytes EXCEPT ![i] = IF (@ \div (2 ^ b)) % 2 = 1 THEN @ - 2 ^ b ELSE @ + 2 ^ b]

SignaturesMade ==
  { SignMessage(NewKeypair(k), AsBytes(m)) : k \in KeyIds, m \in Messages \ { << >> } }

\* the empty string, the signatures the key pairs make, each with a bit
\* flipped in either half, and strings that are no signature: a character
\* outside the alphabet, broken padding, 63 bytes
SignatureTexts ==
  { << >>, << "!", "A", "A", "A" >>, << "A", "A", "A" >>,
    Base64Encode(Repeat(7, SIGNATURE_BYTES - 1)) }
  \cup { Base64Encode(sig) : sig \in SignaturesMade }
  \cup { Base64Encode(FlipBit(sig, 1, 0)) : sig \in SignaturesMade }
  \cup { Base64Encode(FlipBit(sig, SIGNATURE_BYTES, 7)) : sig \in SignaturesMade }

(***************************************************************************)
(* The server.  A request is routed to its handler and the response is     *)
(* returned; nothing is kept from one request to the next.                 *)
(***************************************************************************)
VARIABLES req, resp

vars == << req, resp >>

NoRequest == [route |-> "none"]
NoResponse == [status |-> 0]

Idle == req.route = "none"

Init == req = NoRequest /\ resp = NoResponse

\* the request is deserialized, handled, and answered
Routed(route, payload, response) ==
  /\ req' = [route |-> route, payload |-> payload]
  /\ resp' = response

GetRoot ==
  /\ Idle
  /\ Routed("/", [none |-> TRUE], root_handler)

PostKeypair ==
  /\ Idle
  /\ \E k \in KeyIds : Routed("/keypair", [key |-> k], keypair_handler(k))

PostTokenCreate ==
  /\ Idle
  /\ \E authority \in AddressTexts, mint \in AddressTexts, decimals \in Decimals :
       LET payload == [mintAuthority |-> authority, mint |-> mint,
                       decimals |-> decimals]
       IN  Routed("/token/create", payload, create_token_handler(payload))

PostTokenMint ==
  /\ Idle
  /\ \E mint \in AddressTexts, destination \in AddressTexts,
        authority \in AddressTexts, amount \in Amounts :
       LET payload == [mint |-> mint, destination |-> destination,
                       authority |-> authority, amount |-> amount]
       IN  Routed("/token/mint", payload, mint_token_handler(payload))

PostMessageSign ==
  /\ Idle
  /\ \E message \in Messages, secret \in SecretTexts :
       LET payload == [message |-> message, secret |-> secret]
       IN  Routed("/message/sign", payload, sign_message_handler(payload))

PostMessageVerify ==
  /\ Idle
  /\ \E message \in Messages, signature \in SignatureTexts, pubkey \in AddressTexts :
       LET payload == [message |-> message, signature |-> signature,
                       pubkey |-> pubkey]
       IN  Routed("/message/verify", payload, verify_message_handler(payload))

PostSendSol ==
  /\ Idle
  /\ \E from \in AddressTexts, to \in AddressTexts, lamports \in Amounts :
       LET payload == [from |-> from, to |-> to, lamports |-> lamports]
       IN  Routed("/send/sol", payload, send_sol_handler(payload))

PostSendToken ==
  /\ Idle
  /\ \E destination \in AddressTexts, mint \in AddressTexts,
        owner \in AddressTexts, amount \in Amounts :
       LET payload == [destination |-> destination, mint |-> mint,
                       owner |-> owner, amount |-> amount]
       IN  Routed("/send/token", payload, send_token_handler(payload))

\* the response is written out and the request's values are dropped
Respond ==
  /\ ~Idle
  /\ req' = NoRequest
  /\ resp' = NoResponse

Next ==
  \/ GetRoot
  \/ PostKeypair
  \/ PostTokenCreate
  \/ PostTokenMint
  \/ PostMessageSign
  \/ PostMessageVerify
  \/ PostSendSol
  \/ PostSendToken
  \/ Respond

Spec == Init /\ [][Next]_vars

(***************************************************************************)
(* Vocabulary of the properties.                                           *)
(***************************************************************************)
Route(r) == req.route = r

Accepted == resp.status = 200

Rejected == resp.status = 400

\* the error message of a rejected request
ErrorOf(r) == IF r.status = 400 THEN r.error ELSE ""

\* a rejection carries no data: no program id, account list or payload
NoInstruction == Rejected /\ DOMAIN resp = { "status", "success", "error" }

\* text is a non-empty string that decodes to a 32-byte address
IsAddress(text) == text # << >> /\ ParsePubkey(text).ok

\* the instruction payload of an accepted request, as bytes
PayloadOf(r) == Base64Decode(r.data.instruction_data)

IsPayload(r, bytes) == PayloadOf(r) = [ok |-> TRUE, bytes |-> bytes]

\* byte i of the little-endian form of a: floor(a / 256^i) mod 256.  The
\* amounts tried are below 2^31, so the quotient is 0 from i = 4 on.
ByteAt(a, i) == (IF i < 4 THEN a \div (256 ^ i) ELSE 0) % 256

LittleEndian64(a) == [i \in 1..8 |-> ByteAt(a, i - 1)]

\* account entry acc carries the flag and the flag has value v
Tagged(acc, flag, v) == flag \in DOMAIN acc /\ acc[flag] = v

INVALID_AMOUNT == "Amount must be greater than 0"
SAME_ADDRESS == "Cannot send SOL to the same address"
INVALID_ENCODING == "Invalid secret key format"
INVALID_KEY == "Invalid secret key"

\* the address fields of the request being served
AddressFields ==
  CASE Route("/token/create") -> { req.payload.mint, req.payload.mintAuthority }
    [] Route("/token/mint") ->
         { req.payload.mint, req.payload.destination, req.payload.authority }
    [] Route("/send/token") ->
         { req.payload.owner, req.payload.destination, req.payload.mint }
    [] Route("/send/sol") -> { req.payload.from, req.payload.to }
    [] OTHER -> { }

IsInstructionRoute ==
  Route("/token/create") \/ Route("/token/mint") \/ Route("/send/token")
    \/ Route("/send/sol")

\* the request being served carries an amount
HasAmount == Route("/token/mint") \/ Route("/send/token") \/ Route("/send/sol")

AmountOf == IF Route("/send/sol") THEN req.payload.lamports ELSE req.payload.amount

(***************************************************************************)
(* C1.  For each of InitializeMint, MintTo, TransferToken, TransferNative:  *)
(* a request with an address field that is empty or does not decode to a    *)
(* 32-byte address is rejected with a validation error and no instruction   *)
(* is returned.                                                             *)
(* The code refutes it: create_token_handler and mint_token_handler check   *)
(* nothing, send_token_handler checks only emptiness.                       *)
(***************************************************************************)
C1_BadAddressRejected ==
  (IsInstructionRoute /\ \E a \in AddressFields : ~IsAddress(a)) => NoInstruction

(***************************************************************************)
(* C2.  For MintTo, TransferToken and TransferNative: a request with amount *)
(* 0 is rejected (with InvalidAmount once the fields are present) and       *)
(* returns no instruction; an accepted request has an amount above zero.    *)
(* The code refutes it: mint_token_handler accepts amount 0.                *)
(***************************************************************************)
C2_ZeroAmountRejected ==
  HasAmount =>
    /\ AmountOf = 0 => NoInstruction
    /\ (AmountOf = 0 /\ << >> \notin AddressFields) => ErrorOf(resp) = INVALID_AMOUNT
    /\ Accepted => AmountOf > 0

(***************************************************************************)
(* C3.  For a TransferNative request whose from and to are non-empty and    *)
(* decode to addresses and whose lamports are above zero: if both decode to *)
(* the same 32 bytes the request is rejected with SameAddress and nothing   *)
(* is built; if they decode to different bytes it is not rejected with      *)
(* SameAddress.                                                             *)
(***************************************************************************)
C3_SameAddress ==
  ( /\ Route("/send/sol")
    /\ IsAddress(req.payload.from)
    /\ IsAddress(req.payload.to)
    /\ req.payload.lamports > 0 )
  => IF Bs58Decode(req.payload.from).bytes = Bs58Decode(req.payload.to).bytes
     THEN NoInstruction /\ ErrorOf(resp) = SAME_ADDRESS
     ELSE ErrorOf(resp) # SAME_ADDRESS

C3_Witness ==
  /\ Route("/send/sol")
  /\ IsAddress(req.payload.from)
  /\ req.payload.to = req.payload.from
  /\ req.payload.lamports > 0
  /\ ErrorOf(resp) = SAME_ADDRESS

(***************************************************************************)
(* C4.  For every accepted InitializeMint request with decimals d: the      *)
(* payload is the two bytes [0, d]; the accounts are [mint, authority] with *)
(* signer flags [false, true] and writable flags [true, false]; the program *)
(* id is the token-program id.                                              *)
(***************************************************************************)
C4_InitializeMint ==
  (Route("/token/create") /\ Accepted) =>
    /\ IsPayload(resp, << 0, req.payload.decimals >>)
    /\ Len(resp.data.accounts) = 2
    /\ resp.data.accounts[1] = AccountMeta(req.payload.mint, FALSE, TRUE)
    /\ resp.data.accounts[2] = AccountMeta(req.payload.mintAuthority, TRUE, FALSE)
    /\ resp.data.program_id = "TokenkegQfeZyiNwAJbNbGKPFXCWuBvf9Ss623VQ5DA"

C4_Witness ==
  /\ Route("/token/create")
  /\ Accepted
  /\ req.payload.decimals = 9
  /\ req.payload.mint # req.payload.mintAuthority
  /\ PayloadOf(resp).bytes = << 0, 9 >>

(***************************************************************************)
(* C5.  For every accepted MintTo request with amount a: the payload is 9   *)
(* bytes, 7 followed by a as 8 little-endian bytes; the accounts are        *)
(* [mint, destination, authority] with writable flags [true, true, false]   *)
(* and signer flags [false, false, true]; the program id is the             *)
(* token-program id.                                                        *)
(***************************************************************************)
C5_MintTo ==
  (Route("/token/mint") /\ Accepted) =>
    /\ IsPayload(resp, << 7 >> \o LittleEndian64(req.payload.amount))
    /\ Len(PayloadOf(resp).bytes) = 9
    /\ Len(resp.data.accounts) = 3
    /\ resp.data.accounts[1] = AccountMeta(req.payload.mint, FALSE, TRUE)
    /\ resp.data.accounts[2] = AccountMeta(req.payload.destination, FALSE, TRUE)
    /\ resp.data.accounts[3] = AccountMeta(req.payload.authority, TRUE, FALSE)
    /\ resp.data.program_id = "TokenkegQfeZyiNwAJbNbGKPFXCWuBvf9Ss623VQ5DA"

C5_Witness ==
  /\ Route("/token/mint")
  /\ Accepted
  /\ req.payload.amount = 1000000
  /\ Cardinality({ req.payload.mint, req.payload.destination,
                   req.payload.authority }) = 3
  /\ PayloadOf(resp).bytes = << 7, 64, 66, 15, 0, 0, 0, 0, 0 >>

(***************************************************************************)
(* C6.  For every accepted TransferNative request with lamports L: the      *)
(* payload is 12 bytes, 2,0,0,0 followed by L as 8 little-endian bytes; the *)
(* account list has 2 account references [from, to], from tagged signer     *)
(* and writable, to tagged non-signer and writable.                         *)
(* The code refutes it: SolTransferData.accounts is a list of bare address  *)
(* strings, no entry carries a signer or a writable flag.                   *)
(***************************************************************************)
C6_TransferNative ==
  (Route("/send/sol") /\ Accepted) =>
    /\ IsPayload(resp, << 2, 0, 0, 0 >> \o LittleEndian64(req.payload.lamports))
    /\ Len(resp.data.accounts) = 2
    /\ resp.data.accounts[1].pubkey = req.payload.from
    /\ resp.data.accounts[2].pubkey = req.payload.to
    /\ Tagged(resp.data.accounts[1], "is_signer", TRUE)
    /\ Tagged(resp.data.accounts[1], "is_writable", TRUE)
    /\ Tagged(resp.data.accounts[2], "is_signer", FALSE)
    /\ Tagged(resp.data.accounts[2], "is_writable", TRUE)

(***************************************************************************)
(* C7.  For every accepted TransferToken request with amount a > 0: the     *)
(* payload is 9 bytes, 3 followed by a as 8 little-endian bytes; the        *)
(* accounts are [owner, destination, mint] with signer flags                *)
(* [true, false, false]; the program id is the token-program id that        *)
(* InitializeMint and MintTo use.                                           *)
(***************************************************************************)
C7_TransferToken ==
  (Route("/send/token") /\ Accepted /\ req.payload.amount > 0) =>
    /\ IsPayload(resp, << 3 >> \o LittleEndian64(req.payload.amount))
    /\ Len(PayloadOf(resp).bytes) = 9
    /\ Len(resp.data.accounts) = 3
    /\ resp.data.accounts[1].pubkey = req.payload.owner
    /\ resp.data.accounts[2].pubkey = req.payload.destination
    /\ resp.data.accounts[3].pubkey = req.payload.mint
    /\ Tagged(resp.data.accounts[1], "isSigner", TRUE)
    /\ Tagged(resp.data.accounts[2], "isSigner", FALSE)
    /\ Tagged(resp.data.accounts[3], "isSigner", FALSE)
    /\ resp.data.program_id = create_token_handler(
         [mintAuthority |-> << >>, mint |-> << >>, decimals |-> 0]).data.program_id
    /\ resp.data.program_id = mint_token_handler(
         [mint |-> << >>, destination |-> << >>, authority |-> << >>,
          amount |-> 1]).data.program_id

C7_Witness ==
  /\ Route("/send/token")
  /\ Accepted
  /\ req.payload.amount = 5000
  /\ Cardinality({ req.payload.owner, req.payload.destination,
                   req.payload.mint }) = 3
  /\ PayloadOf(resp).bytes = << 3, 136, 19, 0, 0, 0, 0, 0, 0 >>

(***************************************************************************)
(* C8.  Sign-then-verify round trip.                                       *)
(***************************************************************************)
\* the request being served signs with the secret of a valid key pair
SignsWithKeyPair == Route("/message/sign") /\ \E k \in KeyIds : req.payload.secret = SecretText(k)

\* the answer of verify to the signature, public key and message just returned
VerifyOfSigned ==
  verify_message_handler([message |-> req.payload.message,
                          signature |-> resp.data.signature,
                          pubkey |-> resp.data.public_key])

RoundTrips == Accepted /\ VerifyOfSigned.status = 200 /\ VerifyOfSigned.data.valid = TRUE

\* C8 as claimed: for all messages and all valid key pairs, signing succeeds
\* and verifying the returned signature against the returned public key and
\* the same message answers valid = true.
\* The code refutes it for the empty message, which sign rejects as a missing
\* field.
C8_RoundTripAllMessages == SignsWithKeyPair => RoundTrips

\* C8 as amended: for all non-empty messages and all valid key pairs, signing
\* succeeds and verifying the returned signature against the returned public
\* key and the same message answers valid = true.
C8_RoundTrip == (SignsWithKeyPair /\ req.payload.message # << >>) => RoundTrips

C8_Witness ==
  /\ SignsWithKeyPair
  /\ req.payload.message # << >>
  /\ Accepted
  /\ resp.data.public_key = PubkeyText(2)
  /\ VerifyOfSigned.data.valid

(***************************************************************************)
(* C9.  verify does not fail for well-formed input.                        *)
(***************************************************************************)
\* the request being served is a verify whose public key decodes to 32 bytes
\* and whose signature decodes to 64 bytes
VerifiesWellFormed ==
  /\ Route("/message/verify")
  /\ IsAddress(req.payload.pubkey)
  /\ LET decoded == Base64Decode(req.payload.signature)
     IN  decoded.ok /\ Len(decoded.bytes) = SIGNATURE_BYTES

\* signature is the one key pair k makes over the message of the request, and
\* public is the public key of k
ProducedBy(k, public, signature) ==
  /\ public = NewKeypair(k).public
  /\ signature = SignMessage(NewKeypair(k), AsBytes(req.payload.message))

AnswersBoolean ==
  /\ Accepted
  /\ resp.data.valid \in BOOLEAN
  /\ LET public == Bs58Decode(req.payload.pubkey).bytes
         signature == Base64Decode(req.payload.signature).bytes
     IN  (~\E k \in KeyIds : ProducedBy(k, public, signature))
           => resp.data.valid = FALSE

\* C9 as claimed: for every message, every public key that decodes to 32 bytes
\* and every signature that decodes to 64 bytes, verify answers with a boolean
\* and no error, and the boolean is false when the signature was not made
\* over that message by the key pair of that public key.
\* The code refutes it for the empty message, which verify rejects as a
\* missing field.
C9_VerifyAllMessages == VerifiesWellFormed => AnswersBoolean

\* C9 as amended: the same for every non-empty message.
C9_VerifyNeverFails ==
  (VerifiesWellFormed /\ req.payload.message # << >>) => AnswersBoolean

\* a signature with a flipped bit is answered valid = false
C9_Witness ==
  /\ VerifiesWellFormed
  /\ req.payload.message # << >>
  /\ \E k \in KeyIds :
       /\ req.payload.pubkey = PubkeyText(k)
       /\ Base64Decode(req.payload.signature).bytes
            = FlipBit(SignMessage(NewKeypair(k), AsBytes(req.payload.message)), 1, 0)
  /\ Accepted
  /\ resp.data.valid = FALSE

(***************************************************************************)
(* C10.  Error kinds of secret decoding in the signing path.               *)
(***************************************************************************)
\* the request being served reaches the decoding of the secret
DecodesSecret ==
  Route("/message/sign") /\ req.payload.message # << >> /\ req.payload.secret # << >>

SecretDecoded == Bs58Decode(req.payload.secret)

\* the decoded secret is 64 bytes whose public half is derived from the secret half
IsKeyPair(bytes) ==
  /\ Len(bytes) = KEYPAIR_LENGTH
  /\ SubSeq(bytes, SECRET_KEY_LENGTH + 1, KEYPAIR_LENGTH)
       = PublicOf(SubSeq(bytes, 1, SECRET_KEY_LENGTH))

=============================================================================
